---- MODULE Spec2Model ----
(***************************************************************************)
(* A model of two files of PerfKitBenchmarker:                             *)
(*   perfkitbenchmarker/placement_group.py                                 *)
(*   perfkitbenchmarker/providers/gcp/gce_windows_virtual_machine.py       *)
(* Each part of the program has its own specification (SpecConfig,         *)
(* SpecRegistry, SpecResource, SpecRSS, SpecRetry, SpecPostCreate); the    *)
(* variables of the other parts stay at their idle values.                 *)
(***************************************************************************)
EXTENDS Integers, Sequences, FiniteSets, TLC

VARIABLES
  \* ---- Spec construction (placement_group.py, BasePlacementGroupSpec)
  config_values,   \* dict: option name -> raw value, modified by _ApplyFlags
  config0,         \* history: config_values as passed in by the caller
  FLAGS,           \* the process-wide flags object: placement_group_style
  flag_values,     \* the flag_values argument of _ApplyFlags
  parentWrites,    \* what super()._ApplyFlags writes into config_values
  baseDecoders,    \* what super()._GetOptionDecoderConstructions returns
  specPc,          \* "config" | "flags_applied" | "constructed" | "error"
  specObj,         \* the constructed Spec's attributes, or the failed options
  \* ---- Registry (GetPlacementGroupSpecClass / GetPlacementGroupClass)
  specRegistry,    \* (base class name, CLOUD) -> registered Spec subclass
  resourceRegistry,\* (base class name, CLOUD) -> registered Resource subclass
  regPhase,        \* "loading" | "ready"
  lookup,          \* the last lookup made and its result
  \* ---- Resource (BasePlacementGroup)
  pgSpec,          \* the spec object handed to the constructor (attributes)
  pg,              \* the resource's attributes (empty before construction)
  pgZone0,         \* history: spec.zone at construction time
  pgLastOp,        \* the last lifecycle operation attempted
  \* ---- WindowsGceVirtualMachine.DisableRSS
  rssPc,           \* position in DisableRSS, or "returned" / "raised"
  issued,          \* the remote commands issued so far, in order
  rssExc,          \* the exception DisableRSS raised
  net_adapters,    \* output of Get-NetAdapter
  rssStdout,       \* output of the verification query
  restartExc,      \* what Restart-NetAdapter raised, "none" if nothing

  \* ---- WindowsGceVirtualMachine.GetResourceMetadata under vm_util.Retry
  retryPc, tries, retryExc, metaResult, disable_rss, parentMeta,
  \* ---- WindowsGceVirtualMachine._PostCreate
  postPc, vmName, user_name, password, resetCmd, postExc, resetStdout

varsConfig   == <<config_values, config0, FLAGS, flag_values, parentWrites,
                  baseDecoders, specPc, specObj>>
varsRegistry == <<specRegistry, resourceRegistry, regPhase, lookup>>
varsResource == <<pgSpec, pg, pgZone0, pgLastOp>>
varsRSS      == <<rssPc, issued, rssExc, net_adapters, rssStdout, restartExc>>
varsRetry    == <<retryPc, tries, retryExc, metaResult, disable_rss, parentMeta>>
varsPost     == <<postPc, vmName, user_name, password, resetCmd, postExc,
                  resetStdout>>
vars == <<varsConfig, varsRegistry, varsResource, varsRSS, varsRetry, varsPost>>

\* What a step of one part leaves alone: the variables of the other parts.
FrameConfig   == UNCHANGED <<varsRegistry, varsResource, varsRSS, varsRetry, varsPost>>
FrameRegistry == UNCHANGED <<varsConfig, varsResource, varsRSS, varsRetry, varsPost>>
FrameResource == UNCHANGED <<varsConfig, varsRegistry, varsRSS, varsRetry, varsPost>>
FrameRSS      == UNCHANGED <<varsConfig, varsRegistry, varsResource, varsRetry, varsPost>>
FrameRetry    == UNCHANGED <<varsConfig, varsRegistry, varsResource, varsRSS, varsPost>>
FramePost     == UNCHANGED <<varsConfig, varsRegistry, varsResource, varsRSS, varsRetry>>

-----------------------------------------------------------------------------
(* Python values: a value carries its type, so that a type check, a        *)
(* truthiness test or a None test is computed and not assumed.             *)

PyStr(s) == [type |-> "str", val |-> s]
PyInt(s) == [type |-> "int", val |-> s]
PyBool(b) == [type |-> "bool", val |-> IF b THEN "True" ELSE "False"]
None     == [type |-> "NoneType", val |-> "None"]

\* bool(v): None, '', 0 and False are false; every other value built here
\* (a non-empty str, a non-zero int, True, an object) is true.
Truthy(v) ==
  CASE v.type = "NoneType" -> FALSE
    [] v.type = "str"      -> v.val # ""
    [] v.type = "int"      -> v.val # "0"
    [] v.type = "bool"     -> v.val = "True"
    [] OTHER               -> TRUE

\* Python dicts are functions on a finite set of keys.
EmptyDict == [k \in {} |-> None]
Put(d, k, v) == [x \in (DOMAIN d) \cup {k} |-> IF x = k THEN v ELSE d[x]]
Update(d, e) == [x \in (DOMAIN d) \cup (DOMAIN e) |->
                   IF x \in DOMAIN e THEN e[x] ELSE d[x]]
Get(d, k)    == IF k \in DOMAIN d THEN d[k] ELSE None

-----------------------------------------------------------------------------
(* placement_group.py: constants and the flag definition                   *)

PLACEMENT_GROUP_CLUSTER              == "cluster"
PLACEMENT_GROUP_CLUSTER_IF_SUPPORTED == "cluster_if_supported"
PLACEMENT_GROUP_SPREAD               == "spread"
PLACEMENT_GROUP_SPREAD_IF_SUPPORTED  == "spread_if_supported"
PLACEMENT_GROUP_NONE                 == "none"
PLACEMENT_GROUP_OPTIONS ==
  { PLACEMENT_GROUP_CLUSTER, PLACEMENT_GROUP_CLUSTER_IF_SUPPORTED,
    PLACEMENT_GROUP_SPREAD, PLACEMENT_GROUP_SPREAD_IF_SUPPORTED,
    PLACEMENT_GROUP_NONE }

\* flags.DEFINE_string('placement_group_style', None, ...): the state of the
\* flag before the command line is parsed.
FlagDefault == [present |-> FALSE, value |-> None]

\* The states a parsed string flag can be in: left at its default, or set on
\* the command line to a string (the empty string included).
FlagStates ==
  { FlagDefault }
    \cup { [present |-> TRUE, value |-> PyStr(s)] :
             s \in {"", PLACEMENT_GROUP_CLUSTER, PLACEMENT_GROUP_NONE} }

-----------------------------------------------------------------------------
(* BasePlacementGroupSpec._ApplyFlags                                      *)

\* super()._ApplyFlags(config_values, flag_values): the parent may overwrite
\* entries of config_values; `parent` is the set of entries it writes
\* (none for a parent that has no flags of its own).
ParentApplyFlags(config, flag_vals, parent) == Update(config, parent)

\* Variant: the override is applied before the parent runs.
ApplyFlagsOverrideFirst(config, flag_vals, globalFlags, parent) ==
  LET afterOwn == IF Truthy(globalFlags.value)
                    THEN Put(config, "placement_group_style", globalFlags.value)
                    ELSE config
  IN  ParentApplyFlags(afterOwn, flag_vals, parent)

ApplyFlags(config, flag_vals, globalFlags, parent) ==
  LET afterParent == ParentApplyFlags(config, flag_vals, parent)
  IN  IF Truthy(globalFlags.value)
        THEN Put(afterParent, "placement_group_style", globalFlags.value)
        ELSE afterParent

-----------------------------------------------------------------------------
(* BasePlacementGroupSpec._GetOptionDecoderConstructions and decoding      *)

Construction(decoder, none_ok) == [decoder |-> decoder, none_ok |-> none_ok]

\* Variant: the zone decoder is built without none_ok.
GetOptionDecoderConstructionsRequired(base) ==
  Update(base, [o \in {"zone"} |-> Construction("StringDecoder", FALSE)])

GetOptionDecoderConstructions(base) ==
  Update(base, [o \in {"zone"} |-> Construction("StringDecoder", TRUE)])

\* The type a decoder class verifies.
DecoderType(decoder) ==
  CASE decoder = "StringDecoder"  -> "str"
    [] decoder = "IntDecoder"     -> "int"
    [] OTHER                      -> "object"

\* OptionDecoder.Decode: an absent or null raw value decodes to none when
\* none_ok, and is an error otherwise; a present value must have the decoder's
\* type and is returned as it is.
Decode(construction, raw) ==
  IF raw.type = "NoneType"
    THEN IF construction.none_ok
           THEN [ok |-> TRUE, value |-> None]
           ELSE [ok |-> FALSE, value |-> None]
    ELSE IF raw.type = DecoderType(construction.decoder)
           THEN [ok |-> TRUE, value |-> raw]
           ELSE [ok |-> FALSE, value |-> None]

\* Spec construction, steps 3 to 5: decode every declared option, collect
\* every failure, and bind the decoded values only if none failed.
DecodeAndInit(config, base) ==
  LET decoders == GetOptionDecoderConstructions(base)
      decoded  == [o \in DOMAIN decoders |-> Decode(decoders[o], Get(config, o))]
      invalid  == { o \in DOMAIN decoders : ~decoded[o].ok }
  IN  IF invalid = {}
        THEN [ok |-> TRUE, invalid |-> {},
              attrs |-> [o \in DOMAIN decoders |-> decoded[o].value]]
        ELSE [ok |-> FALSE, invalid |-> invalid, attrs |-> EmptyDict]

NoSpec == [ok |-> FALSE, invalid |-> {}, attrs |-> EmptyDict]

\* Inputs of the configuration part.
ZoneInputs  == { None, PyStr("us-central1-a"), PyStr(""), PyInt("7") }
StyleInputs == { PyStr(PLACEMENT_GROUP_SPREAD), PyStr(PLACEMENT_GROUP_CLUSTER) }
ConfigInputs ==
  { EmptyDict }
    \cup { [o \in {"zone"} |-> z] : z \in ZoneInputs }
    \cup { [o \in {"placement_group_style"} |-> s] : s \in StyleInputs }
    \cup { [o \in {"zone", "placement_group_style"} |->
              IF o = "zone" THEN z ELSE s] : z \in ZoneInputs, s \in StyleInputs }

ParentImpls ==
  { EmptyDict,
    [o \in {"placement_group_style"} |-> PyStr(PLACEMENT_GROUP_SPREAD_IF_SUPPORTED)],
    [o \in {"cloud"} |-> PyStr("GCP")],
    [o \in {"cloud", "placement_group_style"} |->
       IF o = "cloud" THEN PyStr("GCP") ELSE PyStr(PLACEMENT_GROUP_NONE)] }

BaseDecoderSets ==
  { EmptyDict,
    [o \in {"zone"} |-> Construction("StringDecoder", FALSE)],
    [o \in {"zone"} |-> Construction("IntDecoder", FALSE)],
    [o \in {"placement_group_style"} |-> Construction("StringDecoder", TRUE)] }

IdleConfig ==
  /\ config_values = EmptyDict /\ config0 = EmptyDict
  /\ FLAGS = FlagDefault /\ flag_values = FlagDefault
  /\ parentWrites = EmptyDict /\ baseDecoders = EmptyDict
  /\ specPc = "idle" /\ specObj = NoSpec

InitConfigPart ==
  /\ config_values \in ConfigInputs
  /\ config0 = config_values
  /\ FLAGS \in FlagStates
  /\ flag_values \in FlagStates
  /\ parentWrites \in ParentImpls
  /\ baseDecoders \in BaseDecoderSets
  /\ specPc = "config"
  /\ specObj = NoSpec

\* cls._ApplyFlags(config_values, flag_values)
ApplyFlagsStep ==
  /\ specPc = "config"
  /\ config_values' = ApplyFlags(config_values, flag_values, FLAGS, parentWrites)
  /\ specPc' = "flags_applied"
  /\ UNCHANGED <<config0, FLAGS, flag_values, parentWrites, baseDecoders, specObj>>
  /\ FrameConfig

\* Decoding of the options and binding of the attributes.
DecodeStep ==
  /\ specPc = "flags_applied"
  /\ specObj' = DecodeAndInit(config_values, baseDecoders)
  /\ specPc' = IF specObj'.ok THEN "constructed" ELSE "error"
  /\ UNCHANGED <<config_values, config0, FLAGS, flag_values, parentWrites,
                 baseDecoders>>
  /\ FrameConfig

NextConfig == ApplyFlagsStep \/ DecodeStep

-----------------------------------------------------------------------------
(* The registries behind GetPlacementGroupSpecClass / GetPlacementGroupClass *)

\* The two base classes of placement_group.py; both leave CLOUD unset.
BasePlacementGroupSpec ==
  [kind |-> "spec", name |-> "BasePlacementGroupSpec", base |-> "BaseSpec",
   provider |-> "none", CLOUD |-> None]
BasePlacementGroup ==
  [kind |-> "resource", name |-> "BasePlacementGroup", base |-> "BaseResource",
   provider |-> "none", CLOUD |-> None]
NoClass ==
  [kind |-> "none", name |-> "none", base |-> "none", provider |-> "none",
   CLOUD |-> None]

\* Provider modules that may be loaded; two of them declare the same CLOUD.
Providers == {"Gce", "Aws", "Azure", "AwsAlt"}
CloudOf(p) ==
  CASE p = "Gce"    -> PyStr("GCP")
    [] p = "Aws"    -> PyStr("AWS")
    [] p = "AwsAlt" -> PyStr("AWS")
    [] OTHER        -> PyStr("Azure")

\* The concrete subclasses a provider module defines, each with CLOUD set.
SpecSubclass(p) ==
  [kind |-> "spec", name |-> "PlacementGroupSpec", base |-> BasePlacementGroupSpec.name,
   provider |-> p, CLOUD |-> CloudOf(p)]
ResourceSubclass(p) ==
  [kind |-> "resource", name |-> "PlacementGroup", base |-> BasePlacementGroup.name,
   provider |-> p, CLOUD |-> CloudOf(p)]

\* Cloud identifiers a caller may ask for.
CloudInputs ==
  { PyStr("GCP"), PyStr("AWS"), PyStr("Azure"), PyStr("NONEXISTENT-CLOUD") }

\* Resolve(base_class, cloud_id): the registered subclass, or an error.
Resolve(reg, base_class, cloud) ==
  IF <<base_class.name, cloud>> \in DOMAIN reg
    THEN [ok |-> TRUE, class |-> reg[<<base_class.name, cloud>>]]
    ELSE [ok |-> FALSE, class |-> NoClass]

\* spec.GetSpecClass(base_class, CLOUD=cloud)
GetSpecClass(reg, base_class, cloud) == Resolve(reg, base_class, cloud)
\* resource.GetResourceClass(base_class, CLOUD=cloud)
GetResourceClass(reg, base_class, cloud) == Resolve(reg, base_class, cloud)

GetPlacementGroupSpecClass(reg, cloud) ==
  GetSpecClass(reg, BasePlacementGroupSpec, cloud)

\* Variant: the Resource lookup is made with the Spec base class.
GetPlacementGroupClassBySpecBase(reg, cloud) ==
  GetResourceClass(reg, BasePlacementGroupSpec, cloud)

GetPlacementGroupClass(reg, cloud) ==
  GetResourceClass(reg, BasePlacementGroup, cloud)

\* Registration of a subclass at class-definition time; a second subclass for
\* the same (base class, CLOUD) pair is an error and does not register.
Register(reg, class) ==
  IF <<class.base, class.CLOUD>> \in DOMAIN reg
    THEN reg
    ELSE Put(reg, <<class.base, class.CLOUD>>, class)

NoLookup == [fn |-> "none", cloud |-> None, ok |-> FALSE, class |-> NoClass]

IdleRegistry ==
  /\ specRegistry = EmptyDict /\ resourceRegistry = EmptyDict
  /\ regPhase = "idle" /\ lookup = NoLookup

InitRegistryPart ==
  /\ specRegistry = EmptyDict /\ resourceRegistry = EmptyDict
  /\ regPhase = "loading" /\ lookup = NoLookup

\* Loading a provider module defines its Spec subclass and its Resource
\* subclass, and each registers itself.
LoadProviderModule(p) ==
  /\ regPhase = "loading"
  /\ specRegistry' = Register(specRegistry, SpecSubclass(p))
  /\ resourceRegistry' = Register(resourceRegistry, ResourceSubclass(p))
  /\ UNCHANGED <<regPhase, lookup>>
  /\ FrameRegistry

\* All modules are loaded; the registries are read-only from here on.
FinishLoading ==
  /\ regPhase = "loading"
  /\ regPhase' = "ready"
  /\ UNCHANGED <<specRegistry, resourceRegistry, lookup>>
  /\ FrameRegistry

LookupSpecClass(cloud) ==
  /\ regPhase = "ready"
  /\ LET r == GetPlacementGroupSpecClass(specRegistry, cloud)
     IN  lookup' = [fn |-> "GetPlacementGroupSpecClass", cloud |-> cloud,
                    ok |-> r.ok, class |-> r.class]
  /\ UNCHANGED <<specRegistry, resourceRegistry, regPhase>>
  /\ FrameRegistry

LookupResourceClass(cloud) ==
  /\ regPhase = "ready"
  /\ LET r == GetPlacementGroupClass(resourceRegistry, cloud)
     IN  lookup' = [fn |-> "GetPlacementGroupClass", cloud |-> cloud,
                    ok |-> r.ok, class |-> r.class]
  /\ UNCHANGED <<specRegistry, resourceRegistry, regPhase>>
  /\ FrameRegistry

NextRegistry ==
  \/ \E p \in Providers : LoadProviderModule(p)
  \/ FinishLoading
  \/ \E c \in CloudInputs : LookupSpecClass(c)
  \/ \E c \in CloudInputs : LookupResourceClass(c)

-----------------------------------------------------------------------------
(* BasePlacementGroup: construction and lifecycle                          *)

\* A reference to the spec object itself, as opposed to a copy of a field.
SpecRef == [type |-> "BasePlacementGroupSpec", val |-> "placement_group_spec"]

LifecycleState(s) == [type |-> "state", val |-> s]

\* resource.BaseResource.__init__(): a fresh resource is uninitialized.
BaseResourceInit == [a \in {"lifecycle"} |-> LifecycleState("uninitialized")]

\* Variant: the constructor also keeps the spec object.
BasePlacementGroupInitKeepsSpec(placement_group_spec) ==
  Put(Put(BaseResourceInit, "zone", placement_group_spec["zone"]),
      "spec", SpecRef)

\* BasePlacementGroup.__init__(placement_group_spec): the attributes of self.
BasePlacementGroupInit(placement_group_spec) ==
  Put(BaseResourceInit, "zone", placement_group_spec["zone"])

\* What the constructor leaves of the spec object it was given.
SpecAfterInit(placement_group_spec) == placement_group_spec

State(resource) == resource["lifecycle"].val

\* Variant: Create is accepted again from failed.
CreateResultRetriesFailed(resource, succeeds) ==
  IF State(resource) \in {"uninitialized", "failed"}
    THEN Put(resource, "lifecycle",
             LifecycleState(IF succeeds THEN "active" ELSE "failed"))
    ELSE resource

\* Create(): accepted only from uninitialized; it succeeds or fails.
CreateResult(resource, succeeds) ==
  IF State(resource) = "uninitialized"
    THEN Put(resource, "lifecycle",
             LifecycleState(IF succeeds THEN "active" ELSE "failed"))
    ELSE resource

\* Delete(): from active it succeeds or fails; from failed it is a best-effort
\* cleanup that leaves the resource failed; elsewhere there is nothing to do.
DeleteResult(resource, succeeds) ==
  IF State(resource) = "active"
    THEN Put(resource, "lifecycle",
             LifecycleState(IF succeeds THEN "deleted" ELSE "failed"))
    ELSE resource

CreateAccepted(resource) == State(resource) = "uninitialized"
DeleteAccepted(resource) == State(resource) \in {"active", "failed"}

NoOp == [op |-> "none", accepted |-> FALSE, succeeds |-> FALSE,
         before |-> "none"]

SpecZones == { None, PyStr("us-central1-a"), PyStr("us-east1-b"),
               PyStr("europe-west1-c") }

IdleResource ==
  /\ pgSpec = EmptyDict /\ pg = EmptyDict /\ pgZone0 = None /\ pgLastOp = NoOp

InitResourcePart ==
  /\ pgSpec \in { [a \in {"zone"} |-> z] : z \in SpecZones }
  /\ pg = EmptyDict
  /\ pgZone0 = None
  /\ pgLastOp = NoOp

Constructed == DOMAIN pg # {}

\* BasePlacementGroup(placement_group_spec)
Construct ==
  /\ ~Constructed
  /\ pg' = BasePlacementGroupInit(pgSpec)
  /\ pgSpec' = SpecAfterInit(pgSpec)
  /\ pgZone0' = pgSpec["zone"]
  /\ pgLastOp' = [NoOp EXCEPT !.op = "__init__", !.accepted = TRUE,
                              !.succeeds = TRUE]
  /\ FrameResource

Create(succeeds) ==
  /\ Constructed
  /\ pg' = CreateResult(pg, succeeds)
  /\ pgLastOp' = [op |-> "Create", accepted |-> CreateAccepted(pg),
                  succeeds |-> succeeds /\ CreateAccepted(pg),
                  before |-> State(pg)]
  /\ UNCHANGED <<pgSpec, pgZone0>>
  /\ FrameResource

Delete(succeeds) ==
  /\ Constructed
  /\ pg' = DeleteResult(pg, succeeds)
  /\ pgLastOp' = [op |-> "Delete", accepted |-> DeleteAccepted(pg),
                  succeeds |-> succeeds /\ DeleteAccepted(pg),
                  before |-> State(pg)]
  /\ UNCHANGED <<pgSpec, pgZone0>>
  /\ FrameResource

\* _Exists(): a query, no change of the resource.
Exists ==
  /\ Constructed
  /\ pgLastOp' = [op |-> "_Exists", accepted |-> TRUE,
                  succeeds |-> State(pg) = "active", before |-> State(pg)]
  /\ UNCHANGED <<pgSpec, pg, pgZone0>>
  /\ FrameResource

\* The caller changes (or replaces the zone of) the spec it still holds.
ChangeSpec(z) ==
  /\ pgSpec["zone"] # z
  /\ pgSpec' = Put(pgSpec, "zone", z)
  /\ pgLastOp' = [op |-> "spec_change", accepted |-> TRUE, succeeds |-> TRUE,
                  before |-> IF Constructed THEN State(pg) ELSE "none"]
  /\ UNCHANGED <<pg, pgZone0>>
  /\ FrameResource

NextResource ==
  \/ Construct
  \/ \E ok \in BOOLEAN : Create(ok)
  \/ \E ok \in BOOLEAN : Delete(ok)
  \/ Exists
  \/ \E z \in SpecZones : ChangeSpec(z)

-----------------------------------------------------------------------------
(* WindowsGceVirtualMachine.DisableRSS                                     *)

\* Longest remote-command output considered, in tokens.
MaxOutLen == 3

\* needle in haystack, for Python's `in` on strings: a contiguous occurrence.
Contains(needle, hay) ==
  \E i \in 0..(Len(hay) - Len(needle)) :
     SubSeq(hay, i + 1, i + Len(needle)) = needle

SeqsUpTo(S, n) == UNION { [1..k -> S] : k \in 0..n }

\* Output of Get-NetAdapter, one token per adapter description.
AdapterTokens == {"Red Hat VirtIO Ethernet Adapter", "Google Ethernet Adapter"}
VirtIOAdapter == <<"Red Hat VirtIO Ethernet Adapter">>

\* Output of 'netsh int tcp show global', as tokens.
NetshTokens == {"Receive-Side Scaling State          : ", "enabled", "disabled"}
RssEnabled  == <<"Receive-Side Scaling State          : ", "enabled">>

CmdGetNetAdapter == "Get-NetAdapter"
CmdSetRss        == "netsh int tcp set global rss=disabled"
CmdRestart       == "Restart-NetAdapter -Name \"Ethernet\""
CmdShowGlobal    == "netsh int tcp show global"

\* Exceptions self.RemoteCommand may raise.
RemoteExceptions == {"IOError", "RemoteCommandError"}

\* Variant: the restart is not wrapped in try/except.
CaughtByNothing(exc) == FALSE

\* Variant: the driver check is missing.
DriverAlwaysSupported(out) == TRUE

\* `except IOError: pass` around the adapter restart.
CaughtByExceptIOError(exc) == exc = "IOError"

\* 'Red Hat VirtIO Ethernet Adapter' in net_adapters
DriverSupportsRSS(out) == Contains(VirtIOAdapter, out)

\* 'Receive-Side Scaling State          : enabled' in stdout
RssReportedEnabled(out) == Contains(RssEnabled, out)

IdleRSS ==
  /\ rssPc = "idle" /\ issued = <<>> /\ rssExc = "none"
  /\ net_adapters = <<>> /\ rssStdout = <<>> /\ restartExc = "none"

InitRSSPart ==
  /\ rssPc = "get_adapter" /\ issued = <<>> /\ rssExc = "none"
  /\ net_adapters = <<>> /\ rssStdout = <<>> /\ restartExc = "none"

\* net_adapters, _ = self.RemoteCommand('Get-NetAdapter'), then the driver check
GetNetAdapterOk(out) ==
  /\ rssPc = "get_adapter"
  /\ issued' = Append(issued, CmdGetNetAdapter)
  /\ net_adapters' = out
  /\ IF ~DriverSupportsRSS(out)
       THEN rssPc' = "raised" /\ rssExc' = "GceDriverDoesntSupportFeatureError"
       ELSE rssPc' = "set_rss" /\ rssExc' = rssExc
  /\ UNCHANGED <<rssStdout, restartExc>>
  /\ FrameRSS

GetNetAdapterRaises(exc) ==
  /\ rssPc = "get_adapter"
  /\ issued' = Append(issued, CmdGetNetAdapter)
  /\ rssPc' = "raised" /\ rssExc' = exc
  /\ UNCHANGED <<net_adapters, rssStdout, restartExc>>
  /\ FrameRSS

\* self.RemoteCommand('netsh int tcp set global rss=disabled')
SetRssOk ==
  /\ rssPc = "set_rss"
  /\ issued' = Append(issued, CmdSetRss)
  /\ rssPc' = "restart"
  /\ UNCHANGED <<rssExc, net_adapters, rssStdout, restartExc>>
  /\ FrameRSS

SetRssRaises(exc) ==
  /\ rssPc = "set_rss"
  /\ issued' = Append(issued, CmdSetRss)
  /\ rssPc' = "raised" /\ rssExc' = exc
  /\ UNCHANGED <<net_adapters, rssStdout, restartExc>>
  /\ FrameRSS

\* try: self.RemoteCommand('Restart-NetAdapter -Name "Ethernet"')
RestartOk ==
  /\ rssPc = "restart"
  /\ issued' = Append(issued, CmdRestart)
  /\ rssPc' = "verify"
  /\ UNCHANGED <<rssExc, net_adapters, rssStdout, restartExc>>
  /\ FrameRSS

\* except IOError: pass
RestartRaises(exc) ==
  /\ rssPc = "restart"
  /\ issued' = Append(issued, CmdRestart)
  /\ IF CaughtByExceptIOError(exc)
       THEN rssPc' = "verify" /\ rssExc' = rssExc
       ELSE rssPc' = "raised" /\ rssExc' = exc
  /\ restartExc' = exc
  /\ UNCHANGED <<net_adapters, rssStdout>>
  /\ FrameRSS

\* stdout, _ = self.RemoteCommand('netsh int tcp show global'), then the check
VerifyOk(out) ==
  /\ rssPc = "verify"
  /\ issued' = Append(issued, CmdShowGlobal)
  /\ rssStdout' = out
  /\ IF RssReportedEnabled(out)
       THEN rssPc' = "raised" /\ rssExc' = "GceUnexpectedWindowsAdapterOutputError"
       ELSE rssPc' = "returned" /\ rssExc' = rssExc
  /\ UNCHANGED <<net_adapters, restartExc>>
  /\ FrameRSS

VerifyRaises(exc) ==
  /\ rssPc = "verify"
  /\ issued' = Append(issued, CmdShowGlobal)
  /\ rssPc' = "raised" /\ rssExc' = exc
  /\ UNCHANGED <<net_adapters, rssStdout, restartExc>>
  /\ FrameRSS

NextRSS ==
  \/ \E out \in SeqsUpTo(AdapterTokens, MaxOutLen) : GetNetAdapterOk(out)
  \/ \E exc \in RemoteExceptions : GetNetAdapterRaises(exc)
  \/ SetRssOk
  \/ \E exc \in RemoteExceptions : SetRssRaises(exc)
  \/ RestartOk
  \/ \E exc \in RemoteExceptions : RestartRaises(exc)
  \/ \E out \in SeqsUpTo(NetshTokens, MaxOutLen) : VerifyOk(out)
  \/ \E exc \in RemoteExceptions : VerifyRaises(exc)

-----------------------------------------------------------------------------
(* WindowsGceVirtualMachine.GetResourceMetadata under @vm_util.Retry       *)

max_retries == 10

\* Variant: every exception is retried.
retry_any_exception ==
  {"GceUnexpectedWindowsAdapterOutputError", "RemoteCommandError", "KeyError"}

retryable_exceptions ==
  {"GceUnexpectedWindowsAdapterOutputError", "RemoteCommandError"}

\* What one attempt of the parent's GetResourceMetadata may raise.
MetadataExceptions ==
  {"GceUnexpectedWindowsAdapterOutputError", "RemoteCommandError", "KeyError"}

\* The body of GetResourceMetadata once the parent has returned `result`.
GetResourceMetadataBody(result, rss) == Put(result, "disable_rss", PyBool(rss))

\* vm_util.Retry, after an attempt that raised `exc` as attempt number `n`:
\* retry only a retryable exception, and only while n <= max_retries.
RetryAgain(exc, n) == exc \in retryable_exceptions /\ n <= max_retries

ParentMetadata ==
  { EmptyDict,
    [k \in {"machine_type"} |-> PyStr("n1-standard-2")],
    [k \in {"machine_type", "disable_rss"} |->
       IF k = "machine_type" THEN PyStr("n1-standard-2") ELSE None] }

IdleRetry ==
  /\ retryPc = "idle" /\ tries = 0 /\ retryExc = "none"
  /\ metaResult = EmptyDict /\ disable_rss = FALSE /\ parentMeta = EmptyDict

InitRetryPart ==
  /\ retryPc = "running" /\ tries = 0 /\ retryExc = "none"
  /\ metaResult = EmptyDict
  /\ disable_rss \in BOOLEAN
  /\ parentMeta \in ParentMetadata

\* An attempt in which the parent returns its metadata.
AttemptReturns ==
  /\ retryPc = "running"
  /\ tries' = tries + 1
  /\ metaResult' = GetResourceMetadataBody(parentMeta, disable_rss)
  /\ retryPc' = "returned"
  /\ UNCHANGED <<retryExc, disable_rss, parentMeta>>
  /\ FrameRetry

\* An attempt in which the parent raises.
AttemptRaises(exc) ==
  /\ retryPc = "running"
  /\ tries' = tries + 1
  /\ retryExc' = exc
  /\ retryPc' = IF RetryAgain(exc, tries') THEN "running" ELSE "raised"
  /\ UNCHANGED <<metaResult, disable_rss, parentMeta>>
  /\ FrameRetry

NextRetry ==
  \/ AttemptReturns
  \/ \E exc \in MetadataExceptions : AttemptRaises(exc)

-----------------------------------------------------------------------------
(* WindowsGceVirtualMachine._PostCreate                                    *)

\* _GenerateResetPasswordCommand: gcloud compute reset-windows-password NAME
\* with the flag user set.
GenerateResetPasswordCommand(name, user) ==
  [args |-> <<"compute", "reset-windows-password", name>>,
   flags |-> [user |-> user]]

NoCommand == [args |-> <<>>, flags |-> [user |-> "none"]]

\* What the reset command may print.
ResetStdouts ==
  { "{\"username\": \"perfkit\", \"password\": \"pw-1\"}",
    "{\"password\": \"pw-2\"}",
    "{\"password\": \"\"}",
    "{\"username\": \"perfkit\"}",
    "[]",
    "ERROR: not json",
    "" }

\* json.loads(stdout): the parsed value, or a JSONDecodeError.
JsonLoads(stdout) ==
  CASE stdout = "{\"username\": \"perfkit\", \"password\": \"pw-1\"}" ->
         [ok |-> TRUE, type |-> "dict",
          items |-> [k \in {"username", "password"} |->
                       IF k = "username" THEN PyStr("perfkit") ELSE PyStr("pw-1")]]
    [] stdout = "{\"password\": \"pw-2\"}" ->
         [ok |-> TRUE, type |-> "dict",
          items |-> [k \in {"password"} |-> PyStr("pw-2")]]
    [] stdout = "{\"password\": \"\"}" ->
         [ok |-> TRUE, type |-> "dict",
          items |-> [k \in {"password"} |-> PyStr("")]]
    [] stdout = "{\"username\": \"perfkit\"}" ->
         [ok |-> TRUE, type |-> "dict",
          items |-> [k \in {"username"} |-> PyStr("perfkit")]]
    [] stdout = "[]" ->
         [ok |-> TRUE, type |-> "list", items |-> EmptyDict]
    [] OTHER ->
         [ok |-> FALSE, type |-> "none", items |-> EmptyDict]

\* Variant: a response without 'password' leaves the password unset silently.
PasswordFromStdoutLenient(stdout) ==
  LET response == JsonLoads(stdout)
  IN  IF ~response.ok
        THEN [raises |-> "JSONDecodeError", password |-> None]
      ELSE IF response.type # "dict"
        THEN [raises |-> "TypeError", password |-> None]
      ELSE [raises |-> "none", password |-> Get(response.items, "password")]

\* response = json.loads(stdout); self.password = response['password']:
\* the password assigned, or the exception raised instead.
PasswordFromStdout(stdout) ==
  LET response == JsonLoads(stdout)
  IN  IF ~response.ok
        THEN [raises |-> "JSONDecodeError", password |-> None]
      ELSE IF response.type # "dict"
        THEN [raises |-> "TypeError", password |-> None]
      ELSE IF "password" \notin DOMAIN response.items
        THEN [raises |-> "KeyError", password |-> None]
      ELSE [raises |-> "none", password |-> response.items["password"]]

VmNames   == {"pkb-1234-0", "pkb-1234-1", "pkb-abcd-0"}
UserNames == {"perfkit", "perfkit_user", "admin"}
ParentPostCreateExceptions == {"RemoteCommandError", "WaitUntilReadyError"}
IssueExceptions == {"IssueCommandError", "IssueCommandTimeoutError"}

IdlePost ==
  /\ postPc = "idle" /\ vmName = "none" /\ user_name = "none"
  /\ password = None /\ resetCmd = NoCommand /\ postExc = "none"
  /\ resetStdout = ""

InitPostPart ==
  /\ postPc = "parent"
  /\ vmName \in VmNames /\ user_name \in UserNames
  /\ password = None /\ resetCmd = NoCommand /\ postExc = "none"
  /\ resetStdout = ""

\* super()._PostCreate() returns
ParentPostCreateOk ==
  /\ postPc = "parent"
  /\ postPc' = "reset"
  /\ UNCHANGED <<vmName, user_name, password, resetCmd, postExc, resetStdout>>
  /\ FramePost

\* super()._PostCreate() raises
ParentPostCreateRaises(exc) ==
  /\ postPc = "parent"
  /\ postPc' = "raised" /\ postExc' = exc
  /\ UNCHANGED <<vmName, user_name, password, resetCmd, resetStdout>>
  /\ FramePost

\* The reset command is issued and returns stdout; the rest of the method.
ResetReturns(stdout) ==
  /\ postPc = "reset"
  /\ resetCmd' = GenerateResetPasswordCommand(vmName, user_name)
  /\ resetStdout' = stdout
  /\ LET r == PasswordFromStdout(stdout)
     IN  IF r.raises = "none"
           THEN password' = r.password /\ postPc' = "done" /\ postExc' = postExc
           ELSE password' = password /\ postPc' = "raised" /\ postExc' = r.raises
  /\ UNCHANGED <<vmName, user_name>>
  /\ FramePost

\* The reset command is issued and fails.
ResetRaises(exc) ==
  /\ postPc = "reset"
  /\ resetCmd' = GenerateResetPasswordCommand(vmName, user_name)
  /\ postPc' = "raised" /\ postExc' = exc
  /\ UNCHANGED <<vmName, user_name, password, resetStdout>>
  /\ FramePost

NextPost ==
  \/ ParentPostCreateOk
  \/ \E exc \in ParentPostCreateExceptions : ParentPostCreateRaises(exc)
  \/ \E out \in ResetStdouts : ResetReturns(out)
  \/ \E exc \in IssueExceptions : ResetRaises(exc)

-----------------------------------------------------------------------------
(* The specifications, one per part of the program                         *)

InitConfig ==
  InitConfigPart /\ IdleRegistry /\ IdleResource /\ IdleRSS /\ IdleRetry /\ IdlePost
InitRegistry ==
  IdleConfig /\ InitRegistryPart /\ IdleResource /\ IdleRSS /\ IdleRetry /\ IdlePost
InitResource ==
  IdleConfig /\ IdleRegistry /\ InitResourcePart /\ IdleRSS /\ IdleRetry /\ IdlePost
InitRSS ==
  IdleConfig /\ IdleRegistry /\ IdleResource /\ InitRSSPart /\ IdleRetry /\ IdlePost
InitRetry ==
  IdleConfig /\ IdleRegistry /\ IdleResource /\ IdleRSS /\ InitRetryPart /\ IdlePost
InitPost ==
  IdleConfig /\ IdleRegistry /\ IdleResource /\ IdleRSS /\ IdleRetry /\ InitPostPart

SpecConfig     == InitConfig /\ [][NextConfig]_vars
SpecRegistry   == InitRegistry /\ [][NextRegistry]_vars
SpecResource   == InitResource /\ [][NextResource]_vars
SpecRSS        == InitRSS /\ [][NextRSS]_vars
SpecRetry      == InitRetry /\ [][NextRetry]_vars /\ WF_vars(NextRetry)
SpecPostCreate == InitPost /\ [][NextPost]_vars

-----------------------------------------------------------------------------
(* Properties                                                              *)

STYLE == "placement_group_style"

\* C1: flag override precedence of _ApplyFlags for placement_group_style, in
\* the case where flag_values is the process-wide FLAGS object and the parent
\* does not touch the option: if the flag was explicitly set to F,
\* config_values['placement_group_style'] is F afterwards; if it was not set,
\* the entry is what it was before (or still absent).
C1_FlagOverridePrecedence ==
  (specPc = "flags_applied" /\ flag_values = FLAGS /\ STYLE \notin DOMAIN parentWrites)
    => IF flag_values.present
         THEN /\ STYLE \in DOMAIN config_values
              /\ config_values[STYLE] = flag_values.value
         ELSE /\ (STYLE \in DOMAIN config_values) <=> (STYLE \in DOMAIN config0)
              /\ STYLE \in DOMAIN config0 => config_values[STYLE] = config0[STYLE]

\* C4: in _ApplyFlags the parent's writes are made first and all of them are
\* kept, except that the placement-group override of placement_group_style,
\* made whenever the flag value is truthy, replaces what the parent wrote
\* under that key; the parent's writes are there whether or not the flag is
\* set.
C4_ParentFirstThenOverride ==
  specPc = "flags_applied" =>
    /\ \A k \in (DOMAIN parentWrites) \ {STYLE} :
         k \in DOMAIN config_values /\ config_values[k] = parentWrites[k]
    /\ Truthy(FLAGS.value) =>
         STYLE \in DOMAIN config_values /\ config_values[STYLE] = FLAGS.value
    /\ (~Truthy(FLAGS.value) /\ STYLE \in DOMAIN parentWrites) =>
         config_values[STYLE] = parentWrites[STYLE]
    /\ \A k \in (DOMAIN config0) \ ((DOMAIN parentWrites) \cup {STYLE}) :
         config_values[k] = config0[k]

\* C4 witness: parent and subclass both wrote placement_group_style, with
\* different values, and the parent also wrote another key.
C4_Witness ==
  /\ specPc = "flags_applied"
  /\ STYLE \in DOMAIN parentWrites /\ "cloud" \in DOMAIN parentWrites
  /\ Truthy(FLAGS.value)
  /\ parentWrites[STYLE] # FLAGS.value
  /\ config_values[STYLE] = FLAGS.value

\* C5: the decoder set has every base option plus 'zone' as a string decoder
\* with none_ok (the placement-group entry replacing a base 'zone' entry); a
\* config without zone never fails on zone and yields zone none; a config
\* with a string zone z yields zone z.
C5_OptionalZone ==
  /\ LET d == GetOptionDecoderConstructions(baseDecoders)
     IN  /\ DOMAIN d = (DOMAIN baseDecoders) \cup {"zone"}
         /\ d["zone"] = [decoder |-> "StringDecoder", none_ok |-> TRUE]
         /\ \A o \in (DOMAIN baseDecoders) \ {"zone"} : d[o] = baseDecoders[o]
  /\ (specPc \in {"constructed", "error"} /\ "zone" \notin DOMAIN config0) =>
       /\ "zone" \notin specObj.invalid
       /\ (DOMAIN baseDecoders) \subseteq {"zone"} => specPc = "constructed"
       /\ specPc = "constructed" => specObj.attrs["zone"] = None
  /\ (specPc \in {"constructed", "error"} /\ "zone" \in DOMAIN config0
        /\ config0["zone"].type = "str") =>
       /\ "zone" \notin specObj.invalid
       /\ (DOMAIN baseDecoders) \subseteq {"zone"} => specPc = "constructed"
       /\ specPc = "constructed" => specObj.attrs["zone"] = config0["zone"]

\* C5 witness: a Spec built from a config without zone, over a base decoder
\* set that declared zone differently, has zone none.
C5_Witness ==
  /\ specPc = "constructed"
  /\ "zone" \notin DOMAIN config0
  /\ "zone" \in DOMAIN baseDecoders
  /\ baseDecoders["zone"] # [decoder |-> "StringDecoder", none_ok |-> TRUE]
  /\ specObj.attrs["zone"] = None

Registered(reg, base_class, cloud) ==
  \E k \in DOMAIN reg : reg[k].base = base_class.name /\ reg[k].CLOUD = cloud

RegisteredClasses(reg) == { reg[k] : k \in DOMAIN reg }

LookupRight(reg, base_class) ==
  IF Registered(reg, base_class, lookup.cloud)
    THEN /\ lookup.ok
         /\ lookup.class \in RegisteredClasses(reg)
         /\ lookup.class.base = base_class.name
         /\ lookup.class.kind = base_class.kind
         /\ lookup.class.CLOUD = lookup.cloud
         /\ lookup.class # base_class
    ELSE ~lookup.ok /\ lookup.class = NoClass

\* C3: a lookup for a cloud with no registered subclass fails (it returns
\* neither the base class nor another subclass); a lookup for a registered
\* cloud returns the one subclass of the right base class that declared that
\* CLOUD; and one identifier resolves the Spec subclass and the Resource
\* subclass of one provider.
C3_RegistryResolution ==
  /\ lookup.fn = "GetPlacementGroupSpecClass" =>
       LookupRight(specRegistry, BasePlacementGroupSpec)
  /\ lookup.fn = "GetPlacementGroupClass" =>
       LookupRight(resourceRegistry, BasePlacementGroup)
  /\ \A reg \in {specRegistry, resourceRegistry} :
       \A c1, c2 \in RegisteredClasses(reg) :
         (c1.base = c2.base /\ c1.CLOUD = c2.CLOUD) => c1 = c2
  /\ regPhase = "ready" =>
       \A c \in CloudInputs :
         LET sc == GetPlacementGroupSpecClass(specRegistry, c)
             rc == GetPlacementGroupClass(resourceRegistry, c)
         IN  /\ sc.ok <=> Registered(specRegistry, BasePlacementGroupSpec, c)
             /\ rc.ok <=> Registered(resourceRegistry, BasePlacementGroup, c)
             /\ sc.ok <=> rc.ok
             /\ sc.ok => /\ sc.class.provider = rc.class.provider
                         /\ sc.class.kind = "spec" /\ rc.class.kind = "resource"

\* C3 witness: with two providers loaded for one cloud, the Resource lookup
\* for that cloud has returned the registered one, and another cloud is not
\* registered.
C3_Witness ==
  /\ lookup.fn = "GetPlacementGroupClass" /\ lookup.ok
  /\ lookup.cloud = PyStr("AWS") /\ lookup.class.provider = "AwsAlt"
  /\ ~Registered(resourceRegistry, BasePlacementGroup, PyStr("GCP"))

\* C2: a fresh resource is uninitialized; only a successful Create (from
\* uninitialized) gives active; only a successful Delete from active gives
\* deleted; a failing Create or Delete gives failed; from failed no Create is
\* accepted and only Delete is, leaving it failed; deleted is never left.
C2_Lifecycle ==
  Constructed =>
    LET now == State(pg)
        was == pgLastOp.before
    IN  CASE pgLastOp.op = "__init__" -> now = "uninitialized"
          [] pgLastOp.op = "Create" ->
               IF was = "uninitialized"
                 THEN /\ pgLastOp.accepted
                      /\ now = IF pgLastOp.succeeds THEN "active" ELSE "failed"
                 ELSE ~pgLastOp.accepted /\ now = was
          [] pgLastOp.op = "Delete" ->
               IF was = "active"
                 THEN /\ pgLastOp.accepted
                      /\ now = IF pgLastOp.succeeds THEN "deleted" ELSE "failed"
                 ELSE /\ now = was
                      /\ pgLastOp.accepted <=> (was = "failed")
          [] OTHER -> now = was \/ was = "none"

\* C2 witness: a Create attempted on a failed resource was not accepted.
C2_Witness ==
  /\ Constructed
  /\ pgLastOp.op = "Create" /\ pgLastOp.before = "failed"
  /\ ~pgLastOp.accepted /\ State(pg) = "failed"

\* C6: once constructed, the resource's zone is the value spec.zone had at
\* construction, whatever lifecycle operation ran and however the spec
\* changed since; no attribute of the resource holds the spec object; and the
\* constructor left the spec as it was.
C6_ZoneCopied ==
  Constructed =>
    /\ pg["zone"] = pgZone0
    /\ \A a \in DOMAIN pg : pg[a] # SpecRef
    /\ pgLastOp.op = "__init__" => pgSpec["zone"] = pgZone0

\* C6 witness: the spec's zone was changed after construction and the
\* resource went through Create and Delete; its zone is the original one.
C6_Witness ==
  /\ Constructed
  /\ State(pg) = "deleted"
  /\ pgSpec["zone"] # pgZone0
  /\ pgZone0 # None
  /\ pg["zone"] = pgZone0

AllCommands == <<CmdGetNetAdapter, CmdSetRss, CmdRestart, CmdShowGlobal>>

InSeq(x, q) == \E i \in 1..Len(q) : q[i] = x

\* Get-NetAdapter has returned its output (it did not raise).
GotAdapterOutput ==
  Len(issued) >= 1 /\ ~(Len(issued) = 1 /\ rssExc \in RemoteExceptions)

\* C7: the commands issued are always a prefix of Get-NetAdapter, set
\* rss=disabled, Restart-NetAdapter, show global; and when the Get-NetAdapter
\* output lacks 'Red Hat VirtIO Ethernet Adapter', DisableRSS has raised
\* GceDriverDoesntSupportFeatureError with neither the set nor the restart
\* issued.
C7_DriverCheckedFirst ==
  /\ Len(issued) <= Len(AllCommands)
  /\ issued = SubSeq(AllCommands, 1, Len(issued))
  /\ (GotAdapterOutput /\ ~Contains(VirtIOAdapter, net_adapters)) =>
       /\ rssPc = "raised"
       /\ rssExc = "GceDriverDoesntSupportFeatureError"
       /\ ~InSeq(CmdSetRss, issued)
       /\ ~InSeq(CmdRestart, issued)

\* C7 witness: an adapter list without the VirtIO adapter made DisableRSS
\* raise after the one query.
C7_Witness ==
  /\ rssPc = "raised" /\ rssExc = "GceDriverDoesntSupportFeatureError"
  /\ net_adapters = <<"Google Ethernet Adapter", "Google Ethernet Adapter">>
  /\ issued = <<CmdGetNetAdapter>>

\* C8: DisableRSS has returned only with all four commands issued, the
\* verification last, and an output that does not report RSS enabled; an
\* IOError from the restart does not end the call, the verification follows;
\* a verification output reporting RSS enabled makes the call raise
\* GceUnexpectedWindowsAdapterOutputError.
C8_VerifiedOrRaised ==
  /\ rssPc = "returned" =>
       /\ issued = AllCommands
       /\ ~Contains(RssEnabled, rssStdout)
  /\ (restartExc = "IOError" /\ Len(issued) = 3) => rssPc = "verify"
  /\ (rssPc = "raised" /\ Len(issued) = 3) => rssExc # "IOError"
  /\ (Len(issued) = 4 /\ Contains(RssEnabled, rssStdout)) =>
       /\ rssPc = "raised"
       /\ rssExc = "GceUnexpectedWindowsAdapterOutputError"

\* C8 witness: the restart raised IOError and the call still returned after
\* a verification that shows RSS disabled.
C8_Witness ==
  /\ restartExc = "IOError"
  /\ rssPc = "returned"
  /\ rssStdout = <<"Receive-Side Scaling State          : ", "disabled">>

C9_Safety ==
  /\ tries <= 11
  /\ (retryPc = "running" /\ tries > 0) =>
       /\ retryExc \in {"GceUnexpectedWindowsAdapterOutputError", "RemoteCommandError"}
       /\ tries <= 10
  /\ retryPc = "raised" =>
       /\ retryExc # "none"
       /\ retryExc \in {"GceUnexpectedWindowsAdapterOutputError", "RemoteCommandError"}
            => tries = 11
  /\ retryPc = "returned" =>
       /\ DOMAIN metaResult = (DOMAIN parentMeta) \cup {"disable_rss"}
       /\ metaResult["disable_rss"] = PyBool(disable_rss)
       /\ \A k \in (DOMAIN parentMeta) \ {"disable_rss"} :
            metaResult[k] = parentMeta[k]

C9_Done == retryPc \in {"returned", "raised"}

\* C9: GetResourceMetadata under its retry wrapper always ends; an attempt is
\* repeated only after GceUnexpectedWindowsAdapterOutputError or
\* RemoteCommandError and at most 10 times, the 11th such failure
\* propagating; any other exception propagates at once; a successful attempt
\* returns the parent's metadata with disable_rss set to the VM's value.
C9_RetryTerminates == []C9_Safety /\ <>C9_Done

\* C9 witness: the 11th attempt failed with a retryable error and it
\* propagated.
C9_Witness ==
  retryPc = "raised" /\ tries = 11 /\ retryExc = "RemoteCommandError"

\* C10: the password is assigned only once the parent _PostCreate has
\* returned and the reset-windows-password command for this VM's name and
\* user has returned a response, and it is that response's 'password'; when
\* the parent, the command or the reading of the response fails, no password
\* is assigned.
C10_PasswordAfterCreate ==
  /\ postPc \in {"parent", "reset", "raised"} => password = None
  /\ postPc = "parent" => resetCmd = NoCommand
  /\ postPc = "done" =>
       /\ resetCmd.args = <<"compute", "reset-windows-password", vmName>>
       /\ resetCmd.flags.user = user_name
       /\ JsonLoads(resetStdout).ok
       /\ "password" \in DOMAIN JsonLoads(resetStdout).items
       /\ password = JsonLoads(resetStdout).items["password"]

\* C10 witness: the password was assigned from the response.
C10_Witness ==
  /\ postPc = "done"
  /\ password = PyStr("pw-2")
  /\ resetCmd.args[3] = "pkb-1234-1"

====
